---------------------------- MODULE Spec2Model ----------------------------
(***************************************************************************)
(* A model of flapy (src/flapy/main.py): the Game controller (spawn,       *)
(* scroll, prune, collide), the Background scroller, the Player physics    *)
(* and animation, the Obstacle collider derivation and the main loop.      *)
(*                                                                         *)
(* Arithmetic.  The program computes in Python floats; the model computes  *)
(* the same expressions exactly, in integers of fixed units:               *)
(*   time      1 tick  = 1/120 s   (frame_time = 1/60 s = 2 ticks)         *)
(*   length    1 unit  = 1/48000 pixel                                     *)
(*   velocity  1 unit  = 1/400 pixel per second                            *)
(* so that velocity * dt is a length, 9.81 * dt * 10 is 327 velocity units *)
(* per tick and scroll_speed * dt is scroll_speed * 400 length units per   *)
(* tick.  Every quantity the program reaches from the frame deltas of the  *)
(* model is an integer in these units.                                     *)
(***************************************************************************)
EXTENDS Integers, Sequences, FiniteSets, TLC

VARIABLES
    game,      \* the Game object: width, height, distance, data, entities,
               \* background, player; and, as field printed, what its methods
               \* printed: per obstacle id, the number of 'Added ...' and of
               \* 'Removed entity ...' lines
    status,    \* "running", or the exit status of the process
    events,    \* the batch pygame.event.get() returned to the current loop pass
    ei,        \* how many events of the batch the for loop has taken
    op,        \* the operation performed last (the position in the loop body)
    dts,       \* the frame deltas passed to Game.update so far
    seen,      \* ids that were live at the end of a frame whose distance was
               \* still below their world x
    nspawn,    \* number of consecutive direct spawn_entities() calls
    probe      \* inputs and result of a function applied on its own

vars == <<game, status, events, ei, op, dts, seen, nspawn, probe>>

----------------------------------------------------------------------------
(* Units *)

\* frame_time = (animation_duration / len(images)) / 1000.0 = 1/60 s, in ticks
FrameTime == 2

TicksPerSecond == 60 * FrameTime

\* length units per pixel
Px == 400 * TicksPerSecond

\* velocity units per pixel-per-second
VelPerPx == Px \div TicksPerSecond

Abs(n) == IF n < 0 THEN -n ELSE n

----------------------------------------------------------------------------
(* Bounds of the model *)

\* number of passes of the main loop (calls of Game.update)
MaxFrames == 4

\* the scroll distance, in pixels, up to which frames are taken
MaxDistancePx == 2000

\* number of events in one polled batch
MaxBatch == 2

\* number of consecutive direct calls of spawn_entities()
MaxSpawnCalls == 2

\* frame deltas, in ticks: 1 s, and stalls of 7 s and of 16 s, which carry
\* the distance past obstacles (7 s to world x = 700 exactly) and past two
\* screen widths
DtSet == {1 * TicksPerSecond, 7 * TicksPerSecond, 16 * TicksPerSecond}

----------------------------------------------------------------------------
(* Configuration and assets *)

SCREEN_SIZE == <<800 * Px, 480 * Px>>

GAME_DATA ==
    [scroll_speed |-> 100,
     entities |-> <<
        [id |-> 0, type |-> "rock", position |-> <<400 * Px, 241 * Px>>],
        [id |-> 3, type |-> "ice",  position |-> <<700 * Px, 0>>],
        [id |-> 1, type |-> "rock", position |-> <<1910 * Px, 241 * Px>>],
        [id |-> 2, type |-> "rock", position |-> <<2200 * Px, 300 * Px>>] >>]

\* The configuration of the end-to-end scenario: scroll_speed 200 and one
\* obstacle at world x = 400.
E2E_DATA ==
    [scroll_speed |-> 200,
     entities |-> <<
        [id |-> 0, type |-> "rock", position |-> <<400 * Px, 241 * Px>>] >>]

ObstacleTypes == {"rock", "ice"}

Ids(data) == {data.entities[k].id : k \in 1..Len(data.entities)}

AllIds == Ids(GAME_DATA) \cup Ids(E2E_DATA)

SpecOf(data, id) ==
    data.entities[CHOOSE k \in 1..Len(data.entities) : data.entities[k].id = id]

\* The image assets are not part of the repository.  The obstacle images are
\* modelled as 108 x 239 pixel sprites whose opaque pixels form a triangle
\* symmetric about the image's vertical axis: rockGrass.png has its apex in
\* the first row, rockIceDown.png in the last.  Alpha is 255 inside, 0 outside.
ImageWidth == 108

ImageHeight == 239

HalfSpan(type, y) ==
    IF type = "rock" THEN (y * 53) \div (ImageHeight - 1)
                     ELSE ((ImageHeight - 1 - y) * 53) \div (ImageHeight - 1)

PixelsAlpha(type) ==
    [x \in 0..(ImageWidth - 1) |->
        [y \in 0..(ImageHeight - 1) |->
            IF /\ x >= 53 - HalfSpan(type, y)
               /\ x <= 54 + HalfSpan(type, y)
            THEN 255 ELSE 0]]

\* background.png is 800 pixels wide
BackgroundWidth == 800

----------------------------------------------------------------------------
(* check_circle_collision *)

\* n1/d1 < n2/d2 for n1, n2 >= 0 and d1, d2 > 0, by comparing the continued
\* fractions: no product is formed, so nothing leaves the integer range.
RECURSIVE FracLess(_, _, _, _)
FracLess(n1, d1, n2, d2) ==
    LET q1 == n1 \div d1
        q2 == n2 \div d2
        r1 == n1 % d1
        r2 == n2 % d2
    IN  IF q1 # q2 THEN q1 < q2
        ELSE IF r2 = 0 THEN FALSE
        ELSE IF r1 = 0 THEN TRUE
        ELSE FracLess(d2, r2, d1, r1)

\* math.sqrt(dx * dx + dy * dy) < r, exactly.  For r > |dx| it is
\* dy * dy < (r - |dx|) * (r + |dx|), decided as |dy| / (r - |dx|) <
\* (r + |dx|) / |dy|.
SqrtLess(dx, dy, r) ==
    /\ r > 0
    /\ Abs(dx) < r
    /\ Abs(dy) < r
    /\ \/ dy = 0
       \/ FracLess(Abs(dy), r - Abs(dx), r + Abs(dx), Abs(dy))

\* math.sqrt(dx * dx + dy * dy) <= r: the non-strict test
SqrtLessEq(dx, dy, r) ==
    /\ r >= 0
    /\ Abs(dx) <= r
    /\ Abs(dy) <= r
    /\ \/ dy = 0
       \/ /\ Abs(dx) < r
          /\ ~ FracLess(r + Abs(dx), Abs(dy), Abs(dy), r - Abs(dx))

check_circle_collision_le(c0, c1) ==
    LET dx == c1[1] - c0[1]
        dy == c1[2] - c0[2]
    IN  SqrtLessEq(dx, dy, c0[3] + c1[3])

check_circle_collision(c0, c1) ==
    LET dx == c1[1] - c0[1]
        dy == c1[2] - c0[2]
    IN  SqrtLess(dx, dy, c0[3] + c1[3])

----------------------------------------------------------------------------
(* Obstacle *)

Min(S) == CHOOSE m \in S : \A n \in S : m <= n
Max(S) == CHOOSE m \in S : \A n \in S : m >= n

RECURSIVE SumSeq(_)
SumSeq(s) == IF s = <<>> THEN 0 ELSE Head(s) + SumSeq(Tail(s))

\* Lines 97-106: per row y the first and the last column whose alpha is not
\* 0, <<"None", "None">> for a row without one.  Row y is element y + 1.
Segments(alpha, width, height) ==
    [row \in 1..height |->
        LET opaque == {x \in 0..(width - 1) : alpha[x][row - 1] # 0}
        IN  IF opaque = {} THEN <<"None", "None">>
            ELSE <<Min(opaque), Max(opaque)>>]

\* Lines 109-111: zip_longest over int(height / 10) references to one
\* iterator deals the rows out in consecutive chunks of int(height / 10)
\* rows; the last chunk is padded with None, which the filter removes.
\* ChunkSize for bands of 10 rows, which gives about height / 10 bands
ChunkSizeTen(height) == 10

ChunkSize(height) == height \div 10

NumChunks(height) ==
    IF ChunkSize(height) = 0 THEN 0
    ELSE (height + ChunkSize(height) - 1) \div ChunkSize(height)

Chunk(segments, height, c) ==
    LET first == c * ChunkSize(height) + 1
        last  == Min({(c + 1) * ChunkSize(height), Len(segments)})
    IN  SubSeq(segments, first, last)

\* Lines 112-119 for chunk c (from 0), v_offset being the sum of the
\* chunk heights before it: the collider (x, y, r) in length units.
ChunkCollider(chunk, segments, height, v_offset) ==
    LET min_x == Min({chunk[k][1] : k \in 1..Len(chunk)})
        max_x == Max({chunk[k][2] : k \in 1..Len(chunk)})
        x == (SumSeq([k \in 1..Len(chunk) |-> chunk[k][1] + chunk[k][2]]) * Px)
                \div (2 * Len(chunk))
        chunk_height == (Len(chunk) * height * Px) \div Len(segments)
        y == v_offset + chunk_height
        r == ((max_x - min_x) * Px) \div 2
    IN  <<x, y, r>>

RECURSIVE CollidersFrom(_, _, _, _)
CollidersFrom(segments, height, c, v_offset) ==
    IF c >= NumChunks(height) THEN <<>>
    ELSE LET col == ChunkCollider(Chunk(segments, height, c), segments,
                                  height, v_offset)
         IN  <<col>> \o CollidersFrom(segments, height, c + 1, col[2])

\* Obstacle.__init__: the colliders derived from the image of the type
DeriveColliders(alpha, width, height) ==
    CollidersFrom(Segments(alpha, width, height), height, 0, 0)

RockColliders == DeriveColliders(PixelsAlpha("rock"), ImageWidth, ImageHeight)

IceColliders == DeriveColliders(PixelsAlpha("ice"), ImageWidth, ImageHeight)

ObstacleColliders(type) ==
    IF type = "rock" THEN RockColliders ELSE IceColliders

\* Obstacle(obstacle_type, position) stored under the key id
Obstacle(id, type, x, y) == [id |-> id, type |-> type, x |-> x, y |-> y]

----------------------------------------------------------------------------
(* Background *)

Background(scroll_speed) ==
    [x |-> 0, width |-> BackgroundWidth * Px, scroll_speed |-> scroll_speed]

\* scroll_speed * dt as a length: pixels per second times ticks
Scrolled(scroll_speed, dt) == scroll_speed * dt * (Px \div TicksPerSecond)

BackgroundUpdate(b, dt) ==
    LET x1 == b.x - Scrolled(b.scroll_speed, dt)
    IN  [b EXCEPT !.x = IF x1 <= -b.width THEN x1 + b.width ELSE x1]

----------------------------------------------------------------------------
(* Player *)

\* 9.81 * dt * 10 for dt = 1 tick, in velocity units: 98.1 * 400 / 120
Gravity == 327

\* the 50 of boost_up, in pixels per second
Boost == 50

NumImages == 3

\* frame is the index of the image shown (set_frame); indices is the value
\* the iterator cycle(range(3)) yields next.
Player ==
    [x |-> 0, y |-> 0, vertical_velocity |-> 0, time_acc |-> 0,
     frame |-> 0, indices |-> 0]

PlayerColliders == << <<44 * Px, 36 * Px, 44 * Px>> >>

boost_up(p) ==
    [p EXCEPT !.vertical_velocity = @ - Boost * VelPerPx]

\* Lines 207-209: the while loop runs n times, n the number of whole
\* frame_time steps in time_acc; each pass takes frame_time off time_acc and
\* shows the image next(self.indices) yields, so after n >= 1 passes the
\* n-th yielded index is shown and the iterator has advanced by n.
\* Animate with an 'if' for the 'while': at most one frame_time step per call
AnimateSingleStep(p) ==
    IF p.time_acc >= FrameTime
    THEN [p EXCEPT !.time_acc = @ - FrameTime,
                   !.frame = p.indices,
                   !.indices = (p.indices + 1) % NumImages]
    ELSE p

Animate(p) ==
    LET n == p.time_acc \div FrameTime
    IN  IF n = 0 THEN p
        ELSE [p EXCEPT !.time_acc = @ - n * FrameTime,
                       !.frame = (p.indices + n - 1) % NumImages,
                       !.indices = (p.indices + n) % NumImages]

\* PlayerUpdate moving y by the velocity the call found, before gravity
PlayerUpdateOldVelocity(p, dt) ==
    LET v == p.vertical_velocity + Gravity * dt
    IN  Animate([p EXCEPT !.time_acc = @ + dt,
                          !.vertical_velocity = v,
                          !.y = @ + p.vertical_velocity * dt])

PlayerUpdate(p, dt) ==
    LET v == p.vertical_velocity + Gravity * dt
    IN  Animate([p EXCEPT !.time_acc = @ + dt,
                          !.vertical_velocity = v,
                          !.y = @ + v * dt])

----------------------------------------------------------------------------
(* Game *)

Game(screen_size, data) ==
    [width |-> screen_size[1], height |-> screen_size[2],
     distance |-> 0,
     data |-> data,
     entities |-> {},
     background |-> Background(data.scroll_speed),
     player |-> Player,
     printed |-> [added   |-> [id \in Ids(data) |-> 0],
                  removed |-> [id \in Ids(data) |-> 0]]]

\* the keys of the entities dict
Keys(g) == {e.id : e \in g.entities}

\* self.entities[id] = entity
Put(entities, entity) ==
    {e \in entities : e.id # entity.id} \cup {entity}

\* SpawnOne with the lower bound of the window inclusive (x >= distance)
SpawnOneInclusive(g, spec) ==
    IF spec.id \in Keys(g) THEN g
    ELSE LET x == spec.position[1]
             y == spec.position[2]
         IN  IF /\ x >= g.distance
                /\ x < g.distance + g.width * 2
                /\ spec.type \in ObstacleTypes
             THEN [g EXCEPT
                     !.entities = Put(@, Obstacle(spec.id, spec.type,
                                                  x - g.distance, y)),
                     !.printed.added[spec.id] = @ + 1]
             ELSE g

\* SpawnOne without the test that skips an id already in the mapping
SpawnOneNoSkip(g, spec) ==
    LET x == spec.position[1]
        y == spec.position[2]
    IN  IF /\ x > g.distance
           /\ x < g.distance + g.width * 2
           /\ spec.type \in ObstacleTypes
        THEN [g EXCEPT
                !.entities = Put(@, Obstacle(spec.id, spec.type,
                                             x - g.distance, y)),
                !.printed.added[spec.id] = @ + 1]
        ELSE g

\* SpawnOne without the lower bound of the window: every absent spec with
\* x < distance + 2 * width is inserted
SpawnOneNoLower(g, spec) ==
    IF spec.id \in Keys(g) THEN g
    ELSE LET x == spec.position[1]
             y == spec.position[2]
         IN  IF /\ x < g.distance + g.width * 2
                /\ spec.type \in ObstacleTypes
             THEN [g EXCEPT
                     !.entities = Put(@, Obstacle(spec.id, spec.type,
                                                  x - g.distance, y)),
                     !.printed.added[spec.id] = @ + 1]
             ELSE g

\* One pass of the loop of spawn_entities, for the spec spec
SpawnOne(g, spec) ==
    IF spec.id \in Keys(g) THEN g
    ELSE LET x == spec.position[1]
             y == spec.position[2]
         IN  IF /\ x > g.distance
                /\ x < g.distance + g.width * 2
                /\ spec.type \in ObstacleTypes
             THEN [g EXCEPT
                     !.entities = Put(@, Obstacle(spec.id, spec.type,
                                                  x - g.distance, y)),
                     !.printed.added[spec.id] = @ + 1]
             ELSE g

RECURSIVE SpawnFrom(_, _)
SpawnFrom(g, k) ==
    IF k > Len(g.data.entities) THEN g
    ELSE SpawnFrom(SpawnOne(g, g.data.entities[k]), k + 1)

spawn_entities(g) == SpawnFrom(g, 1)

\* update_entities leaving the entities spawn_entities has just placed (local
\* x = spec.x - distance) where they are
update_entities_skip_new(g, dt) ==
    [g EXCEPT !.entities =
        {IF e.x = SpecOf(g.data, e.id).position[1] - g.distance
         THEN e
         ELSE [e EXCEPT !.x = @ - Scrolled(g.data.scroll_speed, dt)] : e \in @}]

\* Obstacle.update does nothing
update_entities(g, dt) ==
    [g EXCEPT !.entities =
        {[e EXCEPT !.x = @ - Scrolled(g.data.scroll_speed, dt)] : e \in @}]

\* prune_entities with the threshold of two screen widths, as in the spawn
\* window
prune_entities_late(g) ==
    LET to_remove == {e.id : e \in {e \in g.entities : e.x < -g.width * 2}}
    IN  [g EXCEPT
           !.entities = {e \in @ : e.id \notin to_remove},
           !.printed.removed =
               [id \in DOMAIN @ |-> IF id \in to_remove THEN @[id] + 1
                                                        ELSE @[id]]]

\* prune_entities removing also the entity at exactly x = -width
prune_entities_inclusive(g) ==
    LET to_remove == {e.id : e \in {e \in g.entities : e.x <= -g.width}}
    IN  [g EXCEPT
           !.entities = {e \in @ : e.id \notin to_remove},
           !.printed.removed =
               [id \in DOMAIN @ |-> IF id \in to_remove THEN @[id] + 1
                                                        ELSE @[id]]]

prune_entities(g) ==
    LET to_remove == {e.id : e \in {e \in g.entities : e.x < -g.width}}
    IN  [g EXCEPT
           !.entities = {e \in @ : e.id \notin to_remove},
           !.printed.removed =
               [id \in DOMAIN @ |-> IF id \in to_remove THEN @[id] + 1
                                                        ELSE @[id]]]

Translate(c, x, y) == <<c[1] + x, c[2] + y, c[3]>>

\* check_collision testing the obstacles' circles where the image has them,
\* not translated by the entity's position
check_collision_untranslated(g) ==
    LET c0 == Translate(PlayerColliders[1], g.player.x, g.player.y)
    IN  \E e \in g.entities :
            \E k \in 1..Len(ObstacleColliders(e.type)) :
                check_circle_collision(c0, ObstacleColliders(e.type)[k])

check_collision(g) ==
    LET c0 == Translate(PlayerColliders[1], g.player.x, g.player.y)
    IN  \E e \in g.entities :
            \E k \in 1..Len(ObstacleColliders(e.type)) :
                check_circle_collision(
                    c0, Translate(ObstacleColliders(e.type)[k], e.x, e.y))

\* update with the collision test moved behind background.update and
\* player.update
update_collision_last(g, dt) ==
    LET g1 == [g EXCEPT !.distance = @ + Scrolled(g.data.scroll_speed, dt)]
        g2 == spawn_entities(g1)
        g3 == update_entities(g2, dt)
        g4 == prune_entities(g3)
        g5 == [g4 EXCEPT !.background = BackgroundUpdate(@, dt),
                         !.player = PlayerUpdate(@, dt)]
    IN  [game |-> g5, exit |-> check_collision(g5)]

\* update spawning before it advances the distance
update_spawn_before_distance(g, dt) ==
    LET g1 == spawn_entities(g)
        g2 == [g1 EXCEPT !.distance = @ + Scrolled(g.data.scroll_speed, dt)]
        g3 == update_entities(g2, dt)
        g4 == prune_entities(g3)
    IN  IF check_collision(g4)
        THEN [game |-> g4, exit |-> TRUE]
        ELSE [game |-> [g4 EXCEPT
                          !.background = BackgroundUpdate(@, dt),
                          !.player = PlayerUpdate(@, dt)],
              exit |-> FALSE]

\* Game.update(dt): the Game after the call and whether it called exit(1)
update(g, dt) ==
    LET g1 == [g EXCEPT !.distance = @ + Scrolled(g.data.scroll_speed, dt)]
        g2 == spawn_entities(g1)
        g3 == update_entities(g2, dt)
        g4 == prune_entities(g3)
    IN  IF check_collision(g4)
        THEN [game |-> g4, exit |-> TRUE]
        ELSE [game |-> [g4 EXCEPT
                          !.background = BackgroundUpdate(@, dt),
                          !.player = PlayerUpdate(@, dt)],
              exit |-> FALSE]

\* handle_keypress boosting on every key
handle_keypress_any_key(g, keyname) ==
    [g EXCEPT !.player = boost_up(@)]

handle_keypress(g, keyname) ==
    IF keyname = "space" THEN [g EXCEPT !.player = boost_up(@)] ELSE g

----------------------------------------------------------------------------
(* The main loop *)

Quit == [type |-> "QUIT"]
KeyDown(name) == [type |-> "KEYDOWN", key |-> name]

\* the events the loop distinguishes: Quit, the jump key, another key
Events == {Quit, KeyDown("space"), KeyDown("a")}

Batches == UNION {[1..n -> Events] : n \in 0..MaxBatch}

NoProbe == [kind |-> "none"]

InitWith(data) ==
    /\ game = Game(SCREEN_SIZE, data)
    /\ status = "running"
    /\ events = <<>>
    /\ ei = 0
    /\ op = "init"
    /\ dts = <<>>
    /\ seen = {}
    /\ nspawn = 0

Init ==
    /\ InitWith(GAME_DATA)
    /\ probe = NoProbe

\* ids live in g whose world x is still ahead of the distance
LiveAhead(g) ==
    {e.id : e \in {e \in g.entities :
                     SpecOf(g.data, e.id).position[1] > g.distance}}

\* Line 336: pygame.event.get() returns the batch of this pass
PollEvents ==
    /\ status = "running"
    /\ op \in {"init", "frame"}
    /\ Len(dts) < MaxFrames
    /\ \E batch \in Batches : events' = batch
    /\ ei' = 0
    /\ op' = "poll"
    /\ UNCHANGED <<game, status, dts, seen, nspawn, probe>>

InEventLoop ==
    /\ status = "running"
    /\ op \in {"poll", "event"}

\* HandleQuit leaving the loop running: the Quit event is taken and ignored
HandleQuitIgnored ==
    /\ InEventLoop
    /\ ei < Len(events)
    /\ events[ei + 1].type = "QUIT"
    /\ ei' = ei + 1
    /\ op' = "event"
    /\ UNCHANGED <<game, status, events, dts, seen, nspawn, probe>>

\* Lines 337-338: sys.exit(0)
HandleQuit ==
    /\ InEventLoop
    /\ ei < Len(events)
    /\ events[ei + 1].type = "QUIT"
    /\ status' = "exit0"
    /\ ei' = ei + 1
    /\ op' = "event"
    /\ UNCHANGED <<game, events, dts, seen, nspawn, probe>>

\* Lines 339-340: game.handle_keypress(pygame.key.name(event.key))
HandleKeyDown ==
    /\ InEventLoop
    /\ ei < Len(events)
    /\ events[ei + 1].type = "KEYDOWN"
    /\ game' = handle_keypress(game, events[ei + 1].key)
    /\ ei' = ei + 1
    /\ op' = "event"
    /\ UNCHANGED <<status, events, dts, seen, nspawn, probe>>

\* Game.update(dt) called with the Game in state running
GameUpdate(dt) ==
    /\ status = "running"
    /\ game.distance + Scrolled(game.data.scroll_speed, dt) <= MaxDistancePx * Px
    /\ LET r == update(game, dt)
       IN  /\ game' = r.game
           /\ status' = IF r.exit THEN "exit1" ELSE "running"
           /\ seen' = seen \cup LiveAhead(r.game)
    /\ dts' = Append(dts, dt)

\* Lines 342-353: the events are handled; dt, game.update(dt), render
Frame(dt) ==
    /\ InEventLoop
    /\ ei = Len(events)
    /\ GameUpdate(dt)
    /\ events' = <<>>
    /\ ei' = 0
    /\ op' = "frame"
    /\ UNCHANGED <<nspawn, probe>>

Next ==
    \/ PollEvents
    \/ HandleQuit
    \/ HandleKeyDown
    \/ \E dt \in DtSet : Frame(dt)

Spec == Init /\ [][Next]_vars

\* The end-to-end scenario: the same loop over E2E_DATA
InitE2E ==
    /\ InitWith(E2E_DATA)
    /\ probe = NoProbe

SpecE2E == InitE2E /\ [][Next]_vars

----------------------------------------------------------------------------
(* The Game driven through its methods: update(dt) and, in between,        *)
(* spawn_entities() called directly                                        *)

UpdateCall(dt) ==
    /\ Len(dts) < MaxFrames
    /\ GameUpdate(dt)
    /\ op' = "update"
    /\ nspawn' = 0
    /\ UNCHANGED <<events, ei, probe>>

SpawnEntitiesCall ==
    /\ status = "running"
    /\ nspawn < MaxSpawnCalls
    /\ game' = spawn_entities(game)
    /\ op' = "spawn_entities"
    /\ nspawn' = nspawn + 1
    /\ UNCHANGED <<status, events, ei, dts, seen, probe>>

NextGame ==
    \/ \E dt \in DtSet : UpdateCall(dt)
    \/ SpawnEntitiesCall

SpecGame == Init /\ [][NextGame]_vars

----------------------------------------------------------------------------
(* The Game updated with frame deltas that bring an obstacle exactly to    *)
(* the prune threshold (1 s, 5 s, 5 s) and just past it (one tick more);   *)
(* in between, prune_entities() called directly                            *)

PruneDtSet == {1, 1 * TicksPerSecond, 5 * TicksPerSecond}

PruneEntitiesCall ==
    /\ status = "running"
    /\ game' = prune_entities(game)
    /\ op' = "prune_entities"
    /\ UNCHANGED <<status, events, ei, dts, seen, nspawn, probe>>

NextPrune ==
    \/ \E dt \in PruneDtSet : UpdateCall(dt)
    \/ PruneEntitiesCall

SpecPrune == Init /\ [][NextPrune]_vars

----------------------------------------------------------------------------
(* The Player on its own: update(dt) with frame deltas around frame_time,  *)
(* and boost_up()                                                          *)

\* total time, in ticks, the Player is updated for
MaxPlayerTicks == 8

\* number of boost_up() calls
MaxBoosts == 2

\* frame deltas in ticks: half a frame_time and up
PlayerDtSet == {1, 2, 3, 6}

InitPlayer ==
    /\ InitWith(GAME_DATA)
    /\ probe = [kind |-> "player", boosts |-> 0]

PlayerUpdateCall(dt) ==
    /\ SumSeq(dts) + dt <= MaxPlayerTicks
    /\ game' = [game EXCEPT !.player = PlayerUpdate(@, dt)]
    /\ dts' = Append(dts, dt)
    /\ op' = "player.update"
    /\ UNCHANGED <<status, events, ei, seen, nspawn, probe>>

BoostUpCall ==
    /\ probe.boosts < MaxBoosts
    /\ game' = [game EXCEPT !.player = boost_up(@)]
    /\ probe' = [probe EXCEPT !.boosts = @ + 1]
    /\ op' = "player.boost_up"
    /\ UNCHANGED <<status, events, ei, dts, seen, nspawn>>

NextPlayer ==
    \/ \E dt \in PlayerDtSet : PlayerUpdateCall(dt)
    \/ BoostUpCall

SpecPlayer == InitPlayer /\ [][NextPlayer]_vars

----------------------------------------------------------------------------
(* check_circle_collision applied to pairs of circles with small integer   *)
(* coordinates and radii (in length units)                                 *)

\* coordinates of the centres: 0..MaxCoord
MaxCoord == 4

\* radii: 0..MaxRadius
MaxRadius == 3

Circles == (0..MaxCoord) \X (0..MaxCoord) \X (0..MaxRadius)

InitCircle ==
    /\ InitWith(GAME_DATA)
    /\ \E c0 \in Circles, c1 \in Circles :
          probe = [kind |-> "circles", c0 |-> c0, c1 |-> c1,
                   called |-> FALSE, result |-> FALSE]

CircleCollisionCall ==
    /\ ~ probe.called
    /\ probe' = [probe EXCEPT !.called = TRUE,
                              !.result =
                    check_circle_collision(probe.c0, probe.c1)]
    /\ op' = "check_circle_collision"
    /\ UNCHANGED <<game, status, events, ei, dts, seen, nspawn>>

NextCircle == CircleCollisionCall

SpecCircle == InitCircle /\ [][NextCircle]_vars

----------------------------------------------------------------------------
(* Obstacle.__init__ applied to images: the two obstacle images, and small *)
(* images of every height from 10 rows up in which every row has an opaque *)
(* pixel                                                                   *)

\* heights of the small images: 10..MaxImageHeight
MaxImageHeight == 30

\* width of the small images
MaxImageWidth == 6

\* bar: every row opaque in the columns 1..width-2; wedge: row y opaque in
\* the columns 0..(y mod width); stairs: row y opaque in two columns that
\* shift right with y, (y mod (width-1)) and the next
Shapes == {"bar", "wedge", "stairs"}

Images ==
    {[shape |-> sh, width |-> MaxImageWidth, height |-> h] :
        sh \in Shapes, h \in 10..MaxImageHeight}
    \cup {[shape |-> t, width |-> ImageWidth, height |-> ImageHeight] :
              t \in ObstacleTypes}

\* pygame.surfarray.pixels_alpha(image): alpha[x][y]
ImageAlpha(img) ==
    IF img.shape \in ObstacleTypes THEN PixelsAlpha(img.shape)
    ELSE [x \in 0..(img.width - 1) |->
            [y \in 0..(img.height - 1) |->
                IF \/ img.shape = "bar" /\ x >= 1 /\ x <= img.width - 2
                   \/ img.shape = "wedge" /\ x <= y % img.width
                   \/ /\ img.shape = "stairs"
                      /\ x >= y % (img.width - 1)
                      /\ x <= (y % (img.width - 1)) + 1
                THEN 255 ELSE 0]]

InitObstacle ==
    /\ InitWith(GAME_DATA)
    /\ \E img \in Images :
          probe = [kind |-> "obstacle", image |-> img,
                   called |-> FALSE, colliders |-> <<>>]

ObstacleInitCall ==
    /\ ~ probe.called
    /\ probe' = [probe EXCEPT
                   !.called = TRUE,
                   !.colliders = DeriveColliders(ImageAlpha(probe.image),
                                                 probe.image.width,
                                                 probe.image.height)]
    /\ op' = "Obstacle.__init__"
    /\ UNCHANGED <<game, status, events, ei, dts, seen, nspawn>>

NextObstacle == ObstacleInitCall

SpecObstacle == InitObstacle /\ [][NextObstacle]_vars

----------------------------------------------------------------------------
(* Properties *)

\* a step in which Game.update(dt) ran, and its dt
UpdateStep == dts' # dts
LastDt == dts'[Len(dts')]

\* a step of the for loop over the polled events, and the event it takes
EventStep == ei' = ei + 1
Taken == events[ei + 1]

\* a step that is a direct call of spawn_entities()
SpawnStep ==
    /\ op' = "spawn_entities"
    /\ nspawn' = nspawn + 1

Removed(id) == game.printed.removed[id] > 0

\* C1 (prune finality): an obstacle id that prune_entities has removed from
\* the live mapping is absent from the mapping ever after; no id is added
\* again after it was pruned.
C1_PruneFinality ==
    \A id \in Ids(game.data) : Removed(id) => id \notin Keys(game)

SpecsOf(g) == {g.data.entities[k] : k \in 1..Len(g.data.entities)}

\* the entity spawn_entities creates for spec at the distance of g
Fresh(g, spec) ==
    Obstacle(spec.id, spec.type, spec.position[1] - g.distance,
             spec.position[2])

\* the specs of the claimed window at the distance of g: not in the mapping,
\* distance <= x < distance + 2 * screen_width
EligibleInclusive(g) ==
    {sp \in SpecsOf(g) :
        /\ sp.id \notin Keys(g)
        /\ g.distance <= sp.position[1]
        /\ sp.position[1] < g.distance + 2 * g.width}

\* the same with the lower bound exclusive
Eligible(g) ==
    {sp \in SpecsOf(g) :
        /\ sp.id \notin Keys(g)
        /\ g.distance < sp.position[1]
        /\ sp.position[1] < g.distance + 2 * g.width}

\* the ids for which a step printed 'Added ...'
Instantiated ==
    {id \in Ids(game.data) :
        game'.printed.added[id] # game.printed.added[id]}

\* the Game as the spawn_entities() call inside update finds it
AtSpawn == [game EXCEPT !.distance = game'.distance]

\* C2 as claimed (spawn window): spawn_entities() inserts exactly the specs
\* that are not in the mapping and have distance <= x < distance + 2 *
\* screen_width, each at local x = spec.x - distance under its id; this for
\* a direct call and for the call inside update.
C2_SpawnWindowInclusive ==
    [][/\ SpawnStep =>
            /\ game'.entities = game.entities \cup
                  {Fresh(game, sp) : sp \in EligibleInclusive(game)}
            /\ Instantiated = {sp.id : sp \in EligibleInclusive(game)}
       /\ UpdateStep =>
            Instantiated = {sp.id : sp \in EligibleInclusive(AtSpawn)}]_vars

\* C2 amended (spawn window): spawn_entities() inserts exactly the specs
\* that are not in the mapping and have distance < x < distance + 2 *
\* screen_width (both bounds exclusive), each at local x = spec.x - distance
\* under its id; a spec with x = distance is not inserted.  This for a
\* direct call and for the call inside update.
C2_SpawnWindow ==
    [][/\ SpawnStep =>
            /\ game'.entities = game.entities \cup
                  {Fresh(game, sp) : sp \in Eligible(game)}
            /\ Instantiated = {sp.id : sp \in Eligible(game)}
       /\ UpdateStep =>
            Instantiated = {sp.id : sp \in Eligible(AtSpawn)}]_vars

\* spawn_entities() was called with a spec exactly at the distance and not in
\* the mapping, and with other obstacles live: the spec was not inserted.
C2_Witness ==
    /\ op = "spawn_entities"
    /\ Keys(game) # {}
    /\ \E sp \in SpecsOf(game) :
          /\ sp.position[1] = game.distance
          /\ sp.id \notin Keys(game)

\* C5 (spawn idempotence): spawn_entities() leaves every entity already in
\* the mapping as it is and instantiates nothing for its id; called a second
\* time with the distance unchanged it changes nothing at all, so that no id
\* is instantiated twice.
C5_SpawnIdempotent ==
    [][SpawnStep =>
        /\ \A e \in game.entities :
              /\ e \in game'.entities
              /\ game'.printed.added[e.id] = game.printed.added[e.id]
        /\ op = "spawn_entities" => game' = game]_vars

\* spawn_entities() has been called twice in a row, the first call having
\* instantiated an obstacle (it is where the call put it).
C5_Witness ==
    /\ nspawn = 2
    /\ \E e \in game.entities :
          /\ e = Fresh(game, SpecOf(game.data, e.id))
          /\ game.printed.added[e.id] = 1

\* C3 (background wrap): after Background.update(dt) x is never below
\* -width, and an update that crosses the threshold x <= -width leaves x in
\* the interval (-width, 0].
C3_BackgroundWrap ==
    [][(UpdateStep /\ status' = "running") =>
        LET b == game.background
            crossed == b.x - Scrolled(b.scroll_speed, LastDt) <= -b.width
            x == game'.background.x
        IN  /\ x >= -b.width
            /\ crossed => (-b.width < x /\ x <= 0)]_vars

\* the frame_time steps the animation has consumed so far
Consumed == (SumSeq(dts) - game.player.time_acc) \div FrameTime

\* C4 (animation cycling): a fresh Player shows frame 0; after k consumed
\* frame_time steps it shows frame (0 + k) mod N, so that after N steps (N *
\* frame_time of elapsed time) it shows its starting frame again.
C4_AnimationCycle ==
    game.player.frame = (0 + Consumed) % NumImages

\* C6 (collision strictness): check_circle_collision is true iff the
\* distance of the centres is strictly less than r0 + r1, that is iff
\* dx^2 + dy^2 < (r0 + r1)^2; circles exactly r0 + r1 apart do not collide.
C6_CollisionStrict ==
    (probe.kind = "circles" /\ probe.called) =>
        LET dx == probe.c1[1] - probe.c0[1]
            dy == probe.c1[2] - probe.c0[2]
            r  == probe.c0[3] + probe.c1[3]
        IN  probe.result <=> (dx * dx + dy * dy < r * r)

\* check_circle_collision was applied to two circles of positive radius
\* whose centres are exactly r0 + r1 apart, off the axes, and returned false.
C6_Witness ==
    /\ probe.kind = "circles"
    /\ probe.called
    /\ probe.c0[3] > 0
    /\ probe.c1[3] > 0
    /\ probe.c1[1] - probe.c0[1] = 3
    /\ probe.c1[2] - probe.c0[2] = 4
    /\ probe.c0[3] + probe.c1[3] = 5
    /\ probe.result = FALSE

\* C7 (frame step order): Game.update(dt) advances the distance, then spawns
\* (a new entity is placed at spec.x - distance for the advanced distance),
\* then scrolls every live entity including the new ones, then prunes, then
\* tests the collision on the scrolled and pruned obstacles against the
\* player as the previous frame left it; on a hit the process exits with
\* status 1 and neither background.update nor player.update runs, otherwise
\* both run.
C7_FrameOrder ==
    [][UpdateStep =>
        LET d == Scrolled(game.data.scroll_speed, LastDt)
            hit == check_collision([game' EXCEPT !.player = game.player])
        IN  /\ game'.distance = game.distance + d
            /\ \A e \in game'.entities :
                  IF e.id \in Keys(game)
                  THEN [e EXCEPT !.x = @ + d] \in game.entities
                  ELSE [e EXCEPT !.x = @ + d] =
                           Fresh(game', SpecOf(game.data, e.id))
            /\ \A e \in game'.entities : e.x >= -game.width
            /\ status' = IF hit THEN "exit1" ELSE "running"
            /\ IF hit
               THEN /\ game'.background = game.background
                    /\ game'.player = game.player
               ELSE /\ game'.background =
                           BackgroundUpdate(game.background, LastDt)
                    /\ game'.player = PlayerUpdate(game.player, LastDt)]_vars

\* A frame after the first (the player has moved) ended the process on a
\* collision with an obstacle that was spawned in an earlier frame.
C7_Witness ==
    /\ status = "exit1"
    /\ op = "frame"
    /\ Len(dts) >= 2
    /\ game.player.y # 0
    /\ game.entities # {}

\* C8 (exit codes): the process status is running, 0 or 1.  It becomes 0
\* exactly when the for loop takes a Quit event: the events before it in the
\* batch have been handled in order (a key press by handle_keypress), and the
\* process has stopped, so no update follows.  It becomes 1 exactly when
\* Game.update, run after the whole batch was handled, detects a collision.
\* Otherwise the loop keeps running; a terminated process does nothing more.
C8_ExitCodes ==
    [][/\ status' \in {"running", "exit0", "exit1"}
       /\ status # "running" => UNCHANGED vars
       /\ status' = "exit0" <=> (EventStep /\ Taken = Quit)
       /\ (EventStep /\ Taken = Quit) => (game' = game /\ dts' = dts)
       /\ (EventStep /\ Taken.type = "KEYDOWN") =>
             /\ game' = handle_keypress(game, Taken.key)
             /\ status' = "running"
       /\ EventStep => (\A j \in 1..ei : events[j] # Quit)
       /\ UpdateStep => (ei = Len(events) /\ ~ EventStep)
       /\ status' = "exit1" <=>
             (UpdateStep /\
              check_collision([game' EXCEPT !.player = game.player]))]_vars

\* The batch <<KeyDown(space), Quit>> of the first pass: the key press was
\* applied, then the Quit ended the process with status 0 before any update.
C8_Witness ==
    /\ status = "exit0"
    /\ events = <<KeyDown("space"), Quit>>
    /\ ei = 2
    /\ dts = <<>>
    /\ game.player.vertical_velocity = - Boost * VelPerPx

\* C9 (input routing): handle_keypress('space') decreases the player's
\* vertical velocity by exactly 50 and changes nothing else; with any other
\* key name it leaves the Game unchanged.
C9_InputRouting ==
    [][(EventStep /\ Taken.type = "KEYDOWN") =>
          /\ game' = IF Taken.key = "space"
                     THEN [game EXCEPT !.player.vertical_velocity =
                                            @ - 50 * VelPerPx]
                     ELSE game
          /\ UNCHANGED <<status, events, dts, seen>>]_vars

\* After a frame, the batch <<KeyDown(a), KeyDown(space)>> has been handled:
\* the first key changed nothing, the second took 50 off the velocity the
\* frame left.
C9_Witness ==
    /\ status = "running"
    /\ events = <<KeyDown("a"), KeyDown("space")>>
    /\ ei = 2
    /\ dts = <<TicksPerSecond>>
    /\ game.player.vertical_velocity =
          Gravity * TicksPerSecond - 50 * VelPerPx
    /\ game.entities # {}

\* the end-to-end run is complete: no collision, and the distance has grown
\* to 2000 pixels
E2EDone ==
    /\ status # "exit1"
    /\ game.distance >= 2000 * Px

\* the obstacle of the end-to-end scenario
E2EObstacle == E2E_DATA.entities[1]

\* C10 as claimed (end-to-end lifecycle, scroll_speed 200, screen width 800,
\* obstacle at world x 400): in every collision-free run in which the
\* distance grows from 0 to 2000, whatever the frame deltas, the obstacle was
\* live at the end of some frame whose distance was below 400, and once its
\* local x has dropped below -800 it is absent from the mapping.
C10_LifecycleAnyDt ==
    /\ E2EDone => E2EObstacle.id \in seen
    /\ \A e \in game.entities : e.x >= -game.width
    /\ Removed(E2EObstacle.id) => E2EObstacle.id \notin Keys(game)

\* C10 amended: the same for the runs whose first frame has
\* scroll_speed * dt < 400, that is in which the first call of update does
\* not carry the distance to or past the obstacle's world x.
C10_Lifecycle ==
    /\ (/\ E2EDone
        /\ Scrolled(game.data.scroll_speed, dts[1]) < E2EObstacle.position[1])
       => E2EObstacle.id \in seen
    /\ \A e \in game.entities : e.x >= -game.width
    /\ Removed(E2EObstacle.id) => E2EObstacle.id \notin Keys(game)

\* A collision-free run has reached distance 2000; its first frame had
\* scroll_speed * dt < 400; the obstacle was spawned, seen live below
\* distance 400, and pruned.
C10_Witness ==
    /\ game.data = E2E_DATA
    /\ E2EDone
    /\ status = "running"
    /\ Scrolled(game.data.scroll_speed, dts[1]) < E2EObstacle.position[1]
    /\ E2EObstacle.id \in seen
    /\ Removed(E2EObstacle.id)
    /\ game.printed.added[E2EObstacle.id] = 1
    /\ game.entities = {}

\* a step that is a direct call of Player.update(dt), or of boost_up()
PlayerUpdateStep == op' = "player.update" /\ dts' # dts
BoostStep == op' = "player.boost_up" /\ probe' # probe

\* C11 (gravity integration): a Player that started at velocity 0 has, after
\* update calls of total time T and k boost_up() calls in any order, the
\* vertical velocity 9.81 * 10 * T - 50 * k, whatever the split of T into
\* frames; each update adds to y the velocity that already includes the
\* gravity of that frame, times dt, and boost_up leaves y alone.
C11_GravityIntegration ==
    [][/\ game'.player.vertical_velocity =
             Gravity * SumSeq(dts') - 50 * VelPerPx * probe'.boosts
       /\ PlayerUpdateStep =>
             game'.player.y = game.player.y +
                 (game.player.vertical_velocity + Gravity * LastDt) * LastDt
       /\ BoostStep => game'.player.y = game.player.y]_vars

\* Updates of unequal dt, with a boost between them and a boost last: the
\* player has moved and the boosts outweigh the gravity so far.
C11_Witness ==
    /\ probe.kind = "player"
    /\ probe.boosts = 2
    /\ op = "player.boost_up"
    /\ Len(dts) = 3
    /\ dts[1] # dts[2]
    /\ game.player.y < 0
    /\ game.player.vertical_velocity < 0

\* the Game as the update_entities(dt) call inside update finds it
AtScroll == spawn_entities(AtSpawn)

\* C12 (uniform scroll): in every Game.update(dt), update_entities takes
\* exactly scroll_speed * dt off the x of every obstacle in the mapping at
\* that point, the ones spawned in the same frame included, and leaves y
\* alone; an obstacle live at the end of two consecutive frames has moved
\* left by scroll_speed * dt (its x has not increased), one spawned in the
\* frame ends it at spec.x - distance - scroll_speed * dt.
C12_UniformScroll ==
    [][UpdateStep =>
        LET d == Scrolled(game.data.scroll_speed, LastDt)
            scrolled == update_entities(AtScroll, LastDt).entities
        IN  /\ scrolled = {[e EXCEPT !.x = @ - d] : e \in AtScroll.entities}
            /\ game'.entities \subseteq scrolled
            /\ \A e \in game.entities : \A f \in game'.entities :
                  f.id = e.id => /\ f.x = e.x - d
                                 /\ f.x <= e.x
                                 /\ f.y = e.y
            /\ \A f \in game'.entities :
                  f.id \notin Keys(game) =>
                     LET sp == SpecOf(game.data, f.id)
                     IN  /\ f.x = sp.position[1] - game'.distance - d
                         /\ f.y = sp.position[2]]_vars

\* The second frame, of 7 s, has ended: an obstacle spawned in the first
\* frame and one spawned in this frame are live, both scrolled by this
\* frame's 700 pixels.
C12_Witness ==
    /\ op = "frame"
    /\ dts = <<1 * TicksPerSecond, 7 * TicksPerSecond>>
    /\ \E e \in game.entities : \E f \in game.entities :
          /\ e.x = SpecOf(game.data, e.id).position[1] - game.distance
                      - Scrolled(game.data.scroll_speed, dts[1])
          /\ f.x = SpecOf(game.data, f.id).position[1] - game.distance
                      - Scrolled(game.data.scroll_speed, dts[2])

\* a step that is a direct call of prune_entities()
PruneStep == op' = "prune_entities"

\* the entities prune_entities removes from a mapping, and their ids
OffScreen(g, entities) == {e \in entities : e.x < -g.width}
IdsOf(entities) == {e.id : e \in entities}

\* C13 (prune exactness): prune_entities() removes exactly the entities
\* whose local x is strictly less than -screen_width, printing 'Removed' once
\* for each, and leaves the others (one at exactly -screen_width included)
\* and their positions as they are; this for the call inside update, on the
\* scrolled mapping, and for a direct call.  At the end of every update every
\* entity in the mapping has x >= -screen_width.
C13_PruneExact ==
    [][/\ UpdateStep =>
            LET scrolled == update_entities(AtScroll, LastDt).entities
                gone == OffScreen(game, scrolled)
            IN  /\ game'.entities = scrolled \ gone
                /\ \A id \in Ids(game.data) :
                      game'.printed.removed[id] = game.printed.removed[id] +
                          (IF id \in IdsOf(gone) THEN 1 ELSE 0)
       /\ PruneStep =>
            LET gone == OffScreen(game, game.entities)
            IN  /\ game'.entities = game.entities \ gone
                /\ \A id \in Ids(game.data) :
                      game'.printed.removed[id] = game.printed.removed[id] +
                          (IF id \in IdsOf(gone) THEN 1 ELSE 0)
       /\ \A e \in game'.entities : e.x >= -game.width]_vars

\* An update has scrolled an obstacle to exactly x = -screen_width, with
\* other obstacles live: it is still in the mapping and nothing was removed.
C13_Witness ==
    /\ op = "update"
    /\ Cardinality(game.entities) >= 2
    /\ \E e \in game.entities :
          /\ e.x = -game.width
          /\ ~ Removed(e.id)

\* length units per tenth of a pixel: with frame deltas of whole seconds
\* every coordinate and radius is a whole number of tenths
Tenth == Px \div 10

WholeTenths(c) == \A i \in 1..3 : c[i] % Tenth = 0

\* two circles strictly intersect: the distance of the centres is less than
\* the sum of the radii.  Computed in tenths of a pixel; the squares are
\* formed only where both differences are below the sum of the radii.
Intersects(c0, c1) ==
    LET dx == (c1[1] - c0[1]) \div Tenth
        dy == (c1[2] - c0[2]) \div Tenth
        r  == (c0[3] + c1[3]) \div Tenth
    IN  /\ Abs(dx) < r
        /\ Abs(dy) < r
        /\ dx * dx + dy * dy < r * r

\* the player's collider circle (44, 36, 44) at the player's position
PlayerCircle(p) == <<44 * Px + p.x, 36 * Px + p.y, 44 * Px>>

\* the collider circles of a live obstacle at the obstacle's position
ObstacleCircles(e) ==
    {<<ObstacleColliders(e.type)[k][1] + e.x,
       ObstacleColliders(e.type)[k][2] + e.y,
       ObstacleColliders(e.type)[k][3]>> :
        k \in 1..Len(ObstacleColliders(e.type))}

\* the Game as the check_collision() call inside update finds it
AtCollision == prune_entities(update_entities(AtScroll, LastDt))

\* C14 (collision test): the check_collision() call of Game.update returns
\* true (the process exits with status 1) iff some collider circle of some
\* live obstacle, translated by the obstacle's (x, y), strictly intersects
\* the player's circle (44, 36, 44) translated by the player's (x, y); it
\* returns false when the mapping is empty; and it changes nothing: the Game
\* after it is the Game before it, up to the background and player updates
\* that follow a false result.
C14_CheckCollision ==
    [][UpdateStep =>
        LET c0 == PlayerCircle(game.player)
            hit == \E e \in game'.entities :
                       \E c1 \in ObstacleCircles(e) : Intersects(c0, c1)
        IN  /\ WholeTenths(c0)
            /\ \A e \in game'.entities :
                  \A c1 \in ObstacleCircles(e) : WholeTenths(c1)
            /\ (status' = "exit1") <=> hit
            /\ game'.entities = {} => status' = "running"
            /\ [game' EXCEPT !.player = game.player,
                             !.background = game.background] = AtCollision
            /\ status' = "exit1" => game' = AtCollision]_vars

\* A frame has ended the process on a collision: of the live obstacles'
\* circles one intersects the player's circle and another, of another
\* obstacle, does not.
C14_Witness ==
    /\ status = "exit1"
    /\ op = "frame"
    /\ \E e \in game.entities : \E f \in game.entities :
          /\ e.id # f.id
          /\ \E c1 \in ObstacleCircles(e) :
                Intersects(PlayerCircle(game.player), c1)
          /\ \A c1 \in ObstacleCircles(f) :
                ~ Intersects(PlayerCircle(game.player), c1)

\* C15 (animation accumulator drain): after every Player.update(dt) the
\* accumulator satisfies 0 <= time_acc < frame_time, and the call advanced
\* the animation floor((time_acc_before + dt) / frame_time) times: that many
\* frame_time steps were taken off the accumulator, the iterator has moved on
\* by as many and the image shown is the last one it yielded; a dt of
\* several frame_time advances several frames in the one call.
C15_AccumulatorDrain ==
    [][PlayerUpdateStep =>
        LET p == game.player
            q == game'.player
            n == (p.time_acc + LastDt) \div FrameTime
        IN  /\ 0 <= q.time_acc
            /\ q.time_acc < FrameTime
            /\ p.time_acc + LastDt - q.time_acc = n * FrameTime
            /\ q.indices = (p.indices + n) % NumImages
            /\ q.frame = IF n = 0 THEN p.frame
                         ELSE (p.indices + n - 1) % NumImages]_vars

\* update(1/120 s) left half a frame_time in the accumulator; update(1/20 s)
\* then advanced three frames in one call, to the third image, and left half
\* a frame_time again.
C15_Witness ==
    /\ probe.kind = "player"
    /\ op = "player.update"
    /\ dts = <<1, 3 * FrameTime>>
    /\ game.player.time_acc = 1
    /\ game.player.frame = 2
    /\ game.player.indices = 0

\* the obstacle id is not in the mapping of g and the distance of g has
\* reached its world x
Skipped(g, id) ==
    /\ id \notin Keys(g)
    /\ SpecOf(g.data, id).position[1] <= g.distance

\* C16 (skipped spawn window): an obstacle that, at the spawn step of a
\* frame, is not in the mapping and has world x <= distance is not inserted
\* in that frame, and is in the same situation at the end of it; and from a
\* state in which it is absent with x <= distance no step inserts it or
\* leaves that situation.  So it is never inserted in any later frame.
C16_SkippedWindow ==
    [][\A id \in Ids(game.data) :
          /\ (UpdateStep /\ Skipped(AtSpawn, id)) =>
                /\ Skipped(game', id)
                /\ game'.printed.added[id] = game.printed.added[id]
          /\ Skipped(game, id) =>
                /\ Skipped(game', id)
                /\ game'.printed.added[id] = game.printed.added[id]]_vars

\* The first frame, of 7 s, carried the distance past obstacle 0 and exactly
\* to obstacle 3; two more frames have run and neither was ever inserted,
\* while another obstacle is live.
C16_Witness ==
    /\ status = "running"
    /\ op = "frame"
    /\ Len(dts) = 3
    /\ dts[1] = 7 * TicksPerSecond
    /\ Skipped(game, 0) /\ game.printed.added[0] = 0
    /\ Skipped(game, 3) /\ game.printed.added[3] = 0
    /\ game.entities # {}

\* (spec.x - distance) - entity.x for the live obstacle e of g
Offset(g, e) == (SpecOf(g.data, e.id).position[1] - g.distance) - e.x

\* C18 (spawn-frame offset): for every obstacle in the mapping at the end of
\* a frame, (spec.x - distance) - entity.x is scroll_speed * dt of the frame
\* that spawned it (the frame's scroll is in the distance before the spawn
\* and is applied to the entity after it) and stays what it was for an
\* obstacle that was live before the frame; between updates neither the
\* mapping nor the distance changes.  So the on-screen x is never greater
\* than spec.x - distance.
C18_SpawnOffset ==
    [][/\ UpdateStep =>
            \A f \in game'.entities :
               /\ f.id \notin Keys(game) =>
                     Offset(game', f) =
                         Scrolled(game.data.scroll_speed, LastDt)
               /\ \A e \in game.entities :
                     e.id = f.id => Offset(game', f) = Offset(game, e)
               /\ \E k \in 1..Len(dts') :
                     Offset(game', f) =
                         Scrolled(game.data.scroll_speed, dts'[k])
               /\ f.x <= SpecOf(game.data, f.id).position[1]
                             - game'.distance
       /\ ~ UpdateStep =>
            /\ game'.entities = game.entities
            /\ game'.distance = game.distance]_vars

\* After frames of 1 s, 7 s and 1 s: an obstacle spawned in the first frame
\* is live 100 pixels behind spec.x - distance and one spawned in the second
\* frame 700 pixels behind it.
C18_Witness ==
    /\ op = "frame"
    /\ dts = <<1 * TicksPerSecond, 7 * TicksPerSecond, 1 * TicksPerSecond>>
    /\ \E e \in game.entities : \E f \in game.entities :
          /\ Offset(game, e) = 100 * Px
          /\ Offset(game, f) = 700 * Px

\* first and last opaque column of row y of the image
RowLeft(img, y) ==
    Min({x \in 0..(img.width - 1) : ImageAlpha(img)[x][y] # 0})
RowRight(img, y) ==
    Max({x \in 0..(img.width - 1) : ImageAlpha(img)[x][y] # 0})

\* floor(H / 10)
TenthOfHeight(img) == img.height \div 10

\* the rows of band b (from 0) when the rows are dealt into floor(H / 10)
\* bands of equal height
ClaimedBand(img, b) ==
    {y \in 0..(img.height - 1) :
        /\ y * TenthOfHeight(img) >= b * img.height
        /\ y * TenthOfHeight(img) < (b + 1) * img.height}

\* the rows of band b (from 0) when the rows are dealt into consecutive
\* bands of floor(H / 10) rows
RowsOfBand(img, b) ==
    {y \in 0..(img.height - 1) :
        /\ y >= b * TenthOfHeight(img)
        /\ y < (b + 1) * TenthOfHeight(img)}

\* ceil(H / floor(H / 10))
BandCount(img) == (img.height + TenthOfHeight(img) - 1) \div TenthOfHeight(img)

\* C17 as claimed (collider derivation): for an image of height H >= 10
\* with an opaque pixel in every row, the constructor makes floor(H / 10)
\* bands of equal height and one collider per band, whose radius is half the
\* largest per-row opaque span (last minus first opaque column) among the
\* rows of the band.
C17_BandCount ==
    (probe.kind = "obstacle" /\ probe.called) =>
        LET img == probe.image
        IN  /\ Len(probe.colliders) = TenthOfHeight(img)
            /\ \A b \in 0..(TenthOfHeight(img) - 1) :
                  2 * probe.colliders[b + 1][3] =
                      Max({RowRight(img, y) - RowLeft(img, y) :
                              y \in ClaimedBand(img, b)}) * Px

\* C17 amended: the constructor deals the rows into consecutive bands of
\* floor(H / 10) rows, the last band shorter when floor(H / 10) does not
\* divide H, which makes ceil(H / floor(H / 10)) bands, and one collider per
\* band: its y is the number of rows down to the end of the band and its
\* radius is half of (largest last opaque column - smallest first opaque
\* column) over the rows of the band.
C17_Bands ==
    (probe.kind = "obstacle" /\ probe.called) =>
        LET img == probe.image
        IN  /\ Len(probe.colliders) = BandCount(img)
            /\ \A b \in 0..(BandCount(img) - 1) :
                  LET rows == RowsOfBand(img, b)
                  IN  /\ probe.colliders[b + 1][2] =
                             (Max(rows) + 1) * Px
                      /\ 2 * probe.colliders[b + 1][3] =
                             (Max({RowRight(img, y) : y \in rows})
                              - Min({RowLeft(img, y) : y \in rows})) * Px

\* The constructor ran on the 25-row stairs image: 13 bands, twelve of two
\* rows and a last one of a single row; the two rows of the first band are
\* one column wide each and the band's radius is one column.
C17_Witness ==
    /\ probe.kind = "obstacle"
    /\ probe.called
    /\ probe.image.shape = "stairs"
    /\ probe.image.height = 25
    /\ Len(probe.colliders) = 13
    /\ probe.colliders[13][2] = 25 * Px
    /\ probe.colliders[1][3] = 1 * Px

=============================================================================
